---------------------------- MODULE Spec2Model ----------------------------
(***************************************************************************)
(* State-machine model of the email record pipeline of the Web3 email      *)
(* platform backend (src/backend/server.py): wallet login, the paid send   *)
(* path, the encrypted content store and the payment reconciliation.       *)
(*                                                                         *)
(* Every request handler is a coroutine; the steps of a handler are cut at *)
(* its awaits on shared state (MongoDB collections, the IPFS node), so a   *)
(* step is one database or storage call together with the local code that *)
(* follows it up to the next await.                                        *)
(***************************************************************************)
EXTENDS Integers, Sequences, FiniteSets, Bags, TLC

(* ------------------------------ bounds --------------------------------- *)
\* request slots that can be in flight at once
NumProcs == 2
\* account records the users collection may hold
MaxUsers == 2
\* payment sessions that may be created
MaxSessions == 1
\* email records after which no further send is started, in the
\* specifications that follow an account down to its last credit
MaxRecords == 10
\* the same, in the specifications that run every handler
MaxMail == 2
\* attachments carried by one send
MaxAttachments == 2
\* calls of store_encrypted_content followed in the storage specification
MaxPuts == 2
\* characters of a sender, subject or body offered to the fingerprint
MaxLen == 2
\* recipients of an email offered to the fingerprint
MaxRecipients == 2

(* ------------------------- program constants --------------------------- *)
FREE_CREDITS == 10

Wallets == {"0xA", "0xB"}
\* attachment sizes in MB offered to a send
AttachmentSizes == {1, 20}

SUBSCRIPTION_TIERS ==
  [ basic |-> [ credits_per_month |-> 10,
                features |-> <<"basic_encryption", "standard_timestamps">>,
                max_attachment_size |-> 5,
                encryption_level |-> "standard" ],
    pro |-> [ credits_per_month |-> 100,
              features |-> <<"advanced_encryption", "ipfs_storage",
                             "delivery_guarantees", "ricardian_contracts">>,
              max_attachment_size |-> 50,
              encryption_level |-> "advanced" ],
    enterprise |-> [ credits_per_month |-> 1000,
                     features |-> <<"advanced_encryption", "ipfs_storage",
                                    "delivery_guarantees", "ricardian_contracts",
                                    "sla_contracts", "priority_support">>,
                     max_attachment_size |-> 500,
                     encryption_level |-> "enterprise" ] ]

CREDIT_PACKAGES ==
  [ small |-> [credits |-> 25], medium |-> [credits |-> 100],
    large |-> [credits |-> 500], bulk |-> [credits |-> 2000] ]

\* package names offered to the two checkout endpoints
SubscriptionInputs == {"pro"}
CreditInputs == {"small"}

VARIABLES
  client,               \* ipfs_service.client is set (the node answered at start-up)
  users,                \* db.users, in insertion order; a user's id is its index
  payment_transactions, \* db.payment_transactions; a session's id is its index
  email_records,        \* db.email_records: a bag of records (ids left out)
  req,                  \* the request each slot is handling, with its locals
  now,                  \* clock read by datetime.utcnow() at a completion write
  applied,              \* history: ledger updates made for each payment session
  topups,               \* history: login top-ups written for each user
  fernet_key,           \* ipfs_service.encryption_key of the running process
  node,                 \* the IPFS node's objects; the CID of node[n] is n
  issued,               \* history: what each store call was given and returned
  got,                  \* history: the last retrieval and its answer
  fp                    \* history: the last two emails fingerprinted, with the digests

storevars == <<fernet_key, node, issued, got, fp>>

vars == <<client, users, payment_transactions, email_records, req, now,
          applied, topups, fernet_key, node, issued, got, fp>>

Procs == 1..NumProcs

(* --------------------------- pure helpers ------------------------------ *)
SeqsUpTo(S, n) == UNION {[1..k -> S] : k \in 0..n}

\* User(wallet_address=..., email_credits=10): tier and features are the defaults
User(wallet) ==
  [ wallet_address |-> wallet, subscription_tier |-> "basic",
    email_credits |-> FREE_CREDITS, premium_features |-> <<>> ]

\* PaymentTransaction(...) as the two checkout functions build it
PaymentTransaction(uid, kind, name, credits) ==
  [ user_id |-> uid, package_kind |-> kind, package_name |-> name,
    credits_granted |-> credits, payment_status |-> "pending",
    completed_at |-> 0, stripe_payment_intent_id |-> 0 ]

\* db.users.find_one({"wallet_address": w}): index of the first match, 0 if none
find_by_wallet(us, w) ==
  IF \E i \in DOMAIN us : us[i].wallet_address = w
  THEN CHOOSE i \in DOMAIN us :
         /\ us[i].wallet_address = w
         /\ \A j \in DOMAIN us : us[j].wallet_address = w => i <= j
  ELSE 0

\* Fernet: a token opens under the key that made it and under no other
encrypt(key, content) == [key |-> key, plain |-> content]
can_decrypt(key, token) == token.key = key

\* the bytes retrieve_encrypted_content returns when self.client is None
Placeholder == "Simulated IPFS content retrieval"

\* IPFSService.store_encrypted_content: cl is self.client, reachable is whether
\* add_bytes returns, t is time.time(); the result is the returned hash and the
\* node's objects.  Without a client, or when add_bytes raises, the hash is
\* sha256(str(time.time()) + str(len(content))), of which the time is kept.
store_encrypted_content(cl, reachable, store, key, content, t) ==
  IF cl /\ reachable
  THEN [ hash |-> [kind |-> "cid", n |-> Len(store) + 1],
         store |-> Append(store, encrypt(key, content)) ]
  ELSE [ hash |-> [kind |-> "simulated", n |-> t], store |-> store ]

\* IPFSService.retrieve_encrypted_content: cat and decrypt; whatever raises
\* inside (no such object, node not reachable, InvalidToken) leaves as a 404
retrieve_encrypted_content(cl, reachable, store, key, hash) ==
  IF ~cl THEN [status |-> 200, bytes |-> Placeholder]
  ELSE IF ~reachable \/ hash.kind /= "cid" \/ hash.n \notin DOMAIN store
       THEN [status |-> 404, bytes |-> ""]
  ELSE IF ~can_decrypt(key, store[hash.n]) THEN [status |-> 404, bytes |-> ""]
  ELSE [status |-> 200, bytes |-> store[hash.n].plain]

\* a credit check that refuses nobody
has_no_credits_never(doc_credits) == FALSE

\* a credit check that lets a balance of 0 through
has_no_credits_below_zero(doc_credits) == doc_credits < 0

\* the credit check that opens send_email_advanced
has_no_credits(doc_credits) == doc_credits <= 0

\* a guard that lets every paid notification through
needs_processing_always(status) == TRUE

\* the guard both triggers put in front of _process_successful_payment
needs_processing(status) == status /= "completed"

(* ------------------ AdvancedEmailService fingerprint ------------------- *)
\* A str is a sequence of characters.  ord gives the order Python compares
\* characters in.
Chars == {" ", "A", "a", "b"}
ord(c) == CASE c = " " -> 32 [] c = "A" -> 65 [] c = "a" -> 97 [] c = "b" -> 98

\* a lower() that leaves the case as it is
lower_keeps_case(s) == s

\* str.lower()
lower(s) == [i \in DOMAIN s |-> IF s[i] = "A" THEN "a" ELSE s[i]]

\* str.strip(): leading and trailing whitespace removed
RECURSIVE lstrip(_)
lstrip(s) == IF s /= <<>> /\ Head(s) = " " THEN lstrip(Tail(s)) ELSE s
RECURSIVE rstrip(_)
rstrip(s) ==
  IF s /= <<>> /\ s[Len(s)] = " " THEN rstrip(SubSeq(s, 1, Len(s) - 1)) ELSE s
strip(s) == rstrip(lstrip(s))

\* s < t for two str
RECURSIVE str_lt(_, _)
str_lt(s, t) ==
  IF t = <<>> THEN FALSE
  ELSE IF s = <<>> THEN TRUE
  ELSE IF Head(s) /= Head(t) THEN ord(Head(s)) < ord(Head(t))
  ELSE str_lt(Tail(s), Tail(t))

\* sorted(list of str): insertion into the sorted rest
RECURSIVE insert_sorted(_, _)
insert_sorted(x, l) ==
  IF l = <<>> THEN <<x>>
  ELSE IF str_lt(Head(l), x) THEN <<Head(l)>> \o insert_sorted(x, Tail(l))
  ELSE <<x>> \o l
RECURSIVE sorted(_)
sorted(l) == IF l = <<>> THEN <<>> ELSE insert_sorted(Head(l), sorted(Tail(l)))

\* The value under "attachments": None, a list of str (what EmailData carries)
\* or the list of dicts send_email_advanced puts there.  A dict is written as
\* a sequence that no str equals.
None == [kind |-> "None", items |-> <<>>]
StrList(l) == [kind |-> "strs", items |-> l]
AttachmentDict(i) == <<"dict", ToString(i)>>
DictList(n) == [kind |-> "dicts", items |-> [i \in 1..n |-> AttachmentDict(i)]]

\* sorted(email_content.get("attachments", [])) raises TypeError for None and
\* for two or more dicts, which have no order
sorted_raises(attachments) ==
  \/ attachments.kind = "None"
  \/ attachments.kind = "dicts" /\ Len(attachments.items) >= 2

TypeError == [kind |-> "TypeError"]

\* a fingerprint that leaves the body out
generate_email_hash_without_body(email_content) ==
  IF sorted_raises(email_content.attachments) THEN TypeError
  ELSE [ kind |-> "sha256",
         from |-> strip(lower(email_content.from_address)),
         to |-> sorted([i \in DOMAIN email_content.to_addresses |->
                          strip(lower(email_content.to_addresses[i]))]),
         subject |-> strip(email_content.subject) ]

\* _generate_email_hash: sha256 of json.dumps(normalized_content, sort_keys=True),
\* a digest that stands for the normalized content it was computed from
generate_email_hash(email_content) ==
  IF sorted_raises(email_content.attachments) THEN TypeError
  ELSE [ kind |-> "sha256",
         from |-> strip(lower(email_content.from_address)),
         to |-> sorted([i \in DOMAIN email_content.to_addresses |->
                          strip(lower(email_content.to_addresses[i]))]),
         subject |-> strip(email_content.subject),
         body |-> strip(email_content.body),
         attachments |->
           IF email_content.attachments.kind = "strs"
           THEN sorted(email_content.attachments.items)
           ELSE email_content.attachments.items ]

\* verify_email_timestamp of the service: TRUE or FALSE, or the exception of
\* the fingerprint, which the endpoint answers with a 500
verify_email_timestamp(email_data, stored_hash) ==
  LET current_hash == generate_email_hash(email_data)
  IN IF current_hash = TypeError THEN [status |-> 500, valid |-> FALSE]
     ELSE [status |-> 200, valid |-> current_hash = stored_hash]

\* an email as a client submits it (EmailData)
Mail0 ==
  [ from_address |-> <<"a">>, to_addresses |-> <<<<"b">>>>, subject |-> <<"a">>,
    body |-> <<"a">>, attachments |-> StrList(<<>>) ]

\* the file names of n uploaded attachments, as a client lists them
AttachmentNames(n) == StrList([i \in 1..n |-> <<"a">>])

(* ----------------------------- requests -------------------------------- *)
Idle ==
  [ op |-> "none", pc |-> "idle", uid |-> 0, wallet |-> "", sid |-> 0,
    credits |-> 0, tier |-> "", rem |-> <<>>, processed |-> 0,
    ipfs_hash |-> "", paid |-> FALSE, ran |-> FALSE, status |-> 0, out |-> 0,
    atts |-> <<>>, writes |-> 0, content_hash |-> [kind |-> "none"],
    valid |-> FALSE, owner |-> 0, detail |-> "" ]

Free(p) == req[p].pc \in {"idle", "done"}

Done(r, code, value) == [r EXCEPT !.pc = "done", !.rem = <<>>, !.status = code, !.out = value]

Init ==
  /\ client \in BOOLEAN
  /\ users = <<>>
  /\ payment_transactions = <<>>
  /\ email_records = EmptyBag
  /\ req = [p \in Procs |-> Idle]
  /\ now = 1
  /\ applied = <<>>
  /\ topups = <<>>
  /\ fernet_key = "k1"
  /\ node = <<>>
  /\ issued = {}
  /\ got = [status |-> 0]
  /\ fp = [kind |-> "none"]

(* ---------------- WalletAuthService.authenticate_wallet ---------------- *)
\* signature and challenge checks, then find_one on the wallet address
authenticate_wallet_find(p, w, valid) ==
  /\ Free(p)
  /\ LET i == find_by_wallet(users, w)
         r == [Idle EXCEPT !.op = "login", !.wallet = w]
     IN req' = [req EXCEPT ![p] =
          IF ~valid THEN Done(r, 401, 0)
          ELSE IF i = 0 THEN [r EXCEPT !.pc = "login_insert"]
          ELSE IF users[i].email_credits = 0 /\ users[i].subscription_tier = "basic"
               THEN [r EXCEPT !.pc = "login_topup", !.uid = i,
                              !.tier = users[i].subscription_tier]
          ELSE Done([r EXCEPT !.uid = i, !.tier = users[i].subscription_tier],
                    200, users[i].email_credits)]
  /\ UNCHANGED <<client, users, payment_transactions, email_records, now,
                 applied, topups>>
  /\ UNCHANGED storevars

\* no document was found: insert_one of a new User
authenticate_wallet_insert(p) ==
  /\ req[p].pc = "login_insert"
  /\ users' = Append(users, User(req[p].wallet))
  /\ topups' = Append(topups, 0)
  /\ req' = [req EXCEPT ![p] =
       Done([@ EXCEPT !.uid = Len(users) + 1, !.tier = "basic"], 200, FREE_CREDITS)]
  /\ UNCHANGED <<client, payment_transactions, email_records, now, applied>>
  /\ UNCHANGED storevars

\* a Basic account that was read with 0 credits: update_one $set email_credits 10
authenticate_wallet_topup(p) ==
  /\ req[p].pc = "login_topup"
  /\ LET i == find_by_wallet(users, req[p].wallet)
     IN /\ users' = [users EXCEPT ![i].email_credits = FREE_CREDITS]
        /\ topups' = [topups EXCEPT ![i] = @ + 1]
  /\ req' = [req EXCEPT ![p] = Done(@, 200, FREE_CREDITS)]
  /\ UNCHANGED <<client, payment_transactions, email_records, now, applied>>
  /\ UNCHANGED storevars

(* ------------------------ send_email_advanced -------------------------- *)
\* find_one on the token's user id and the credit check
send_email_advanced_check(p, u, atts) ==
  /\ Free(p)
  /\ u \in DOMAIN users
  /\ LET r == [Idle EXCEPT !.op = "send", !.uid = u, !.atts = atts,
                           !.credits = users[u].email_credits,
                           !.tier = users[u].subscription_tier]
     IN req' = [req EXCEPT ![p] =
          IF has_no_credits(users[u].email_credits) THEN Done(r, 402, 0)
          ELSE [r EXCEPT !.pc = IF atts = <<>> THEN "send_store" ELSE "send_attach",
                         !.rem = atts]]
  /\ UNCHANGED <<client, users, payment_transactions, email_records, now,
                 applied, topups>>
  /\ UNCHANGED storevars

\* one turn of the attachment loop: the size check, then the storage write
send_email_advanced_attachment(p, reachable) ==
  /\ req[p].pc = "send_attach"
  /\ LET r == req[p]
         size_mb == Head(r.rem)
     IN req' = [req EXCEPT ![p] =
          IF size_mb > SUBSCRIPTION_TIERS[r.tier].max_attachment_size
          THEN Done(r, 413, 0)
          ELSE [r EXCEPT !.rem = Tail(r.rem), !.processed = r.processed + 1,
                         !.writes = r.writes + 1,
                         !.pc = IF Tail(r.rem) = <<>> THEN "send_store" ELSE "send_attach"]]
  /\ UNCHANGED <<client, users, payment_transactions, email_records, now,
                 applied, topups>>
  /\ UNCHANGED storevars

\* store_email_with_ipfs up to the storage write: _generate_email_hash sorts the
\* processed attachments (dicts), which raises for two or more of them
store_email_with_ipfs_store(p, reachable) ==
  /\ req[p].pc = "send_store"
  /\ LET email_data == [Mail0 EXCEPT !.attachments = DictList(req[p].processed)]
         content_hash == generate_email_hash(email_data)
     IN req' = [req EXCEPT ![p] =
          IF content_hash = TypeError
          THEN Done([@ EXCEPT !.content_hash = content_hash], 500, 0)
          ELSE [@ EXCEPT !.pc = "send_insert",
                         !.content_hash = content_hash,
                         !.writes = @ + 1,
                         !.ipfs_hash = store_encrypted_content(client, reachable, node, fernet_key, "email", now).hash.kind]]
  /\ UNCHANGED <<client, users, payment_transactions, email_records, now,
                 applied, topups>>
  /\ UNCHANGED storevars

\* db.email_records.insert_one(email_record.dict()); a write that raises
\* (ok = FALSE) leaves store_email_with_ipfs as an Exception, answered 500
store_email_with_ipfs_insert(p, ok) ==
  /\ req[p].pc = "send_insert"
  /\ IF ok
     THEN /\ email_records' = email_records (+)
               SetToBag({[user_id |-> req[p].uid, ipfs_hash |-> req[p].ipfs_hash]})
          /\ req' = [req EXCEPT ![p].pc = "send_debit"]
     ELSE /\ req' = [req EXCEPT ![p] = Done(@, 500, 0)]
          /\ UNCHANGED email_records
  /\ UNCHANGED <<client, users, payment_transactions, now, applied, topups>>
  /\ UNCHANGED storevars

\* update_one $inc email_credits -1, then the response built from the first
\* read; a write that raises (ok = FALSE) is answered 500
send_email_advanced_debit(p, ok) ==
  /\ req[p].pc = "send_debit"
  /\ IF ok
     THEN /\ users' = [users EXCEPT ![req[p].uid].email_credits = @ - 1]
          /\ req' = [req EXCEPT ![p] = Done(@, 200, @.credits - 1)]
     ELSE /\ req' = [req EXCEPT ![p] = Done(@, 500, 0)]
          /\ UNCHANGED users
  /\ UNCHANGED <<client, payment_transactions, email_records, now, applied, topups>>
  /\ UNCHANGED storevars

(* --------------------------- PaymentService ---------------------------- *)
\* create_subscription_checkout: one insert_one of a pending transaction
create_subscription_checkout(u, name) ==
  /\ u \in DOMAIN users
  /\ name \in DOMAIN SUBSCRIPTION_TIERS
  /\ payment_transactions' = Append(payment_transactions,
        PaymentTransaction(u, "subscription", name,
                           SUBSCRIPTION_TIERS[name].credits_per_month))
  /\ applied' = Append(applied, 0)
  /\ UNCHANGED <<client, users, email_records, req, now, topups>>
  /\ UNCHANGED storevars

\* create_credits_checkout: one insert_one of a pending transaction
create_credits_checkout(u, name) ==
  /\ u \in DOMAIN users
  /\ name \in DOMAIN CREDIT_PACKAGES
  /\ payment_transactions' = Append(payment_transactions,
        PaymentTransaction(u, "credits", name, CREDIT_PACKAGES[name].credits))
  /\ applied' = Append(applied, 0)
  /\ UNCHANGED <<client, users, email_records, req, now, topups>>
  /\ UNCHANGED storevars

\* get_checkout_status up to its decision: the provider's answer (paid or not),
\* find_one on the session id, and the status comparison.  The 404 for a
\* missing record is raised inside the handler's own try and leaves as a 500.
get_checkout_status_find(p, s, paid) ==
  /\ Free(p)
  /\ LET r == [Idle EXCEPT !.op = "poll", !.sid = s, !.paid = paid]
     IN req' = [req EXCEPT ![p] =
          IF s \notin DOMAIN payment_transactions THEN Done(r, 500, 0)
          ELSE IF paid /\ needs_processing(payment_transactions[s].payment_status)
               THEN [r EXCEPT !.pc = "pay_mark", !.ran = TRUE]
          ELSE Done(r, 200, 0)]
  /\ UNCHANGED <<client, users, payment_transactions, email_records, now, applied, topups>>
  /\ UNCHANGED storevars

\* a webhook that acknowledges every event without processing it
stripe_webhook_find_acknowledge_only(p, s, completed) ==
  /\ Free(p)
  /\ req' = [req EXCEPT ![p] =
       Done([Idle EXCEPT !.op = "webhook", !.sid = s, !.paid = completed], 200, 0)]
  /\ UNCHANGED <<client, users, payment_transactions, email_records, now, applied, topups>>
  /\ UNCHANGED storevars

\* stripe_webhook up to its decision, for a checkout.session.completed event
\* (completed) or any other event
stripe_webhook_find(p, s, completed) ==
  /\ Free(p)
  /\ LET r == [Idle EXCEPT !.op = "webhook", !.sid = s, !.paid = completed]
     IN req' = [req EXCEPT ![p] =
          IF /\ completed
             /\ s \in DOMAIN payment_transactions
             /\ needs_processing(payment_transactions[s].payment_status)
          THEN [r EXCEPT !.pc = "pay_mark", !.ran = TRUE]
          ELSE Done(r, 200, 0)]
  /\ UNCHANGED <<client, users, payment_transactions, email_records, now, applied, topups>>
  /\ UNCHANGED storevars

\* _process_successful_payment, first write: the transaction is set completed.
\* A write that raises (ok = FALSE) is logged and swallowed; the trigger
\* answers as if nothing had happened.
process_successful_payment_mark(p, ok) ==
  /\ req[p].pc = "pay_mark"
  /\ IF ok
     THEN /\ payment_transactions' =
               [payment_transactions EXCEPT ![req[p].sid] =
                  [@ EXCEPT !.payment_status = "completed",
                            !.completed_at = now,
                            !.stripe_payment_intent_id = req[p].sid]]
          /\ now' = now + 1
          /\ req' = [req EXCEPT ![p].pc = "pay_grant"]
     ELSE /\ req' = [req EXCEPT ![p] = Done(@, 200, 0)]
          /\ UNCHANGED <<payment_transactions, now>>
  /\ UNCHANGED <<client, users, email_records, applied, topups>>
  /\ UNCHANGED storevars

\* a ledger update that credits every account
grant_to_every_account(us, rec) ==
  [u \in DOMAIN us |-> [us[u] EXCEPT !.email_credits = @ + rec.credits_granted]]

\* the ledger update of _process_successful_payment for a payment record
grant(us, rec) ==
  IF rec.package_kind = "subscription"
  THEN [us EXCEPT ![rec.user_id] =
         [@ EXCEPT !.subscription_tier = rec.package_name,
                   !.premium_features = SUBSCRIPTION_TIERS[rec.package_name].features,
                   !.email_credits = @ + rec.credits_granted]]
  ELSE [us EXCEPT ![rec.user_id].email_credits = @ + rec.credits_granted]

\* _process_successful_payment, second write: tier and credits.  A write
\* that raises (ok = FALSE) is logged and swallowed.
process_successful_payment_grant(p, ok) ==
  /\ req[p].pc = "pay_grant"
  /\ IF ok
     THEN /\ users' = grant(users, payment_transactions[req[p].sid])
          /\ applied' = [applied EXCEPT ![req[p].sid] = @ + 1]
     ELSE UNCHANGED <<users, applied>>
  /\ req' = [req EXCEPT ![p] = Done(@, 200, 0)]
  /\ UNCHANGED <<client, payment_transactions, email_records, now, topups>>
  /\ UNCHANGED storevars

(* --------------------------- specifications ---------------------------- *)
\* a first login is started only while the users collection has room
LoginAllowed(w) ==
  \/ find_by_wallet(users, w) /= 0
  \/ Len(users) + Cardinality({q \in Procs : req[q].pc = "login_insert"}) < MaxUsers

Sessions == 1..(MaxSessions + 1)

\* The request-level specifications keep, of a storage write, the kind of hash
\* it returned: no handler of the login, send or payment path reads the node.
Login(P, W) ==
  \/ \E p \in P, w \in W, valid \in BOOLEAN :
       LoginAllowed(w) /\ authenticate_wallet_find(p, w, valid)
  \/ \E p \in P : authenticate_wallet_insert(p)

\* the monthly top-up of a login that found a basic account at zero credits
Topup(P) ==
  \E p \in P : authenticate_wallet_topup(p)

Send(P, A, R, F, cap) ==
  \/ \E p \in P, u \in 1..MaxUsers, atts \in A :
       BagCardinality(email_records) <= cap /\ send_email_advanced_check(p, u, atts)
  \/ \E p \in P, reachable \in R : store_email_with_ipfs_store(p, reachable)
  \/ \E p \in P, ok \in F : store_email_with_ipfs_insert(p, ok)
  \/ \E p \in P, ok \in F : send_email_advanced_debit(p, ok)

Attach(P, R) ==
  \E p \in P, reachable \in R : send_email_advanced_attachment(p, reachable)

Checkout ==
  \/ \E u \in 1..MaxUsers, name \in SubscriptionInputs :
       Len(payment_transactions) < MaxSessions /\ create_subscription_checkout(u, name)
  \/ \E u \in 1..MaxUsers, name \in CreditInputs :
       Len(payment_transactions) < MaxSessions /\ create_credits_checkout(u, name)

Reconcile(P, F) ==
  \/ \E p \in P, s \in Sessions, paid \in BOOLEAN :
       get_checkout_status_find(p, s, paid)
  \/ \E p \in P, s \in Sessions, completed \in BOOLEAN :
       stripe_webhook_find(p, s, completed)
  \/ \E p \in P, ok \in F : process_successful_payment_mark(p, ok)
  \/ \E p \in P, ok \in F : process_successful_payment_grant(p, ok)

\* concurrent requests on the send path, down to an account's last credit
NextRace == Login(Procs, {"0xA"}) \/ Topup(Procs) \/ Send(Procs, {<<>>}, {TRUE}, {TRUE}, MaxRecords)
SpecRace == Init /\ [][NextRace]_vars

\* concurrent requests on the payment path
NextPay == Login(Procs, {"0xA"}) \/ Checkout \/ Reconcile(Procs, {TRUE})
SpecPay == Init /\ [][NextPay]_vars

\* login, send and payment requests one at a time, on accounts that stay
\* above zero credits
NextSeq ==
  \/ Login({1}, Wallets)
  \/ Send({1}, {<<>>}, BOOLEAN, {TRUE}, MaxMail)
  \/ Checkout
  \/ Reconcile({1}, {TRUE})
SpecSeq == Init /\ [][NextSeq]_vars

\* one request at a time on the send path, down to an account's last credit
NextExhaust == Login({1}, {"0xA"}) \/ Topup({1}) \/ Send({1}, {<<>>}, BOOLEAN, {TRUE}, MaxRecords)
SpecExhaust == Init /\ [][NextExhaust]_vars

\* one request at a time on the payment path, where a database write may raise
NextFault == Login({1}, {"0xA"}) \/ Checkout \/ Reconcile({1}, BOOLEAN)
SpecFault == Init /\ [][NextFault]_vars


(* ------------------------- the content store -------------------------- *)
Keys == {"k1", "k2"}
Payloads == {"p1", "p2", Placeholder}
dbvars == <<users, payment_transactions, email_records, req, applied, topups>>

\* the hashes a caller can hold: those store calls returned, and a CID no
\* store call returned
Hashes == {i.hash : i \in issued} \cup {[kind |-> "cid", n |-> MaxPuts + 2]}

\* a call of store_encrypted_content(content)
put(content, reachable) ==
  /\ now <= MaxPuts
  /\ LET r == store_encrypted_content(client, reachable, node, fernet_key, content, now)
     IN /\ node' = r.store
        /\ issued' = issued \cup
             {[hash |-> r.hash, content |-> content, key |-> fernet_key]}
  /\ now' = now + 1
  /\ UNCHANGED <<client, fernet_key, got, fp>>
  /\ UNCHANGED dbvars

\* a call of retrieve_encrypted_content(hash)
get(hash, reachable) ==
  /\ LET r == retrieve_encrypted_content(client, reachable, node, fernet_key, hash)
     IN got' = [status |-> r.status, bytes |-> r.bytes, hash |-> hash,
                reachable |-> reachable, key |-> fernet_key, client |-> client]
  /\ UNCHANGED <<client, fernet_key, node, issued, now, fp>>
  /\ UNCHANGED dbvars

\* the process starts again: IPFSService.__init__ reads ENCRYPTION_KEY or
\* generates a key, and connect() reaches the node or leaves client None
IPFSService_init(key, cl) ==
  /\ fernet_key' = key
  /\ client' = cl
  /\ UNCHANGED <<node, issued, got, now, fp>>
  /\ UNCHANGED dbvars

NextStore ==
  \/ \E content \in Payloads, reachable \in BOOLEAN : put(content, reachable)
  \/ \E hash \in Hashes, reachable \in BOOLEAN : get(hash, reachable)
  \/ \E key \in Keys, cl \in BOOLEAN : IPFSService_init(key, cl)
SpecStore == Init /\ [][NextStore]_vars

(* ------------------------ auxiliary definitions ------------------------ *)
\* email records owned by user u
RecordsOf(u) ==
  CopiesIn([user_id |-> u, ipfs_hash |-> "cid"], email_records)
    + CopiesIn([user_id |-> u, ipfs_hash |-> "simulated"], email_records)

\* credits_granted summed over the first n payment sessions that user u owns
\* and that are completed
RECURSIVE CompletedCredits(_, _)
CompletedCredits(u, n) ==
  IF n = 0 THEN 0
  ELSE CompletedCredits(u, n - 1)
       + IF /\ payment_transactions[n].user_id = u
            /\ payment_transactions[n].payment_status = "completed"
         THEN payment_transactions[n].credits_granted ELSE 0

SendDone(p) == req[p].pc = "done" /\ req[p].op = "send"
Sending(p, u) == req[p].op = "send" /\ req[p].uid = u /\ req[p].pc = "send_debit"
Granting(s) == \E p \in Procs : req[p].sid = s /\ req[p].pc \in {"pay_mark", "pay_grant"}

(* ------------------------------- claims -------------------------------- *)
\* C1: the credit balance of every account is at least 0 in every reachable
\* state, whatever the interleaving of logins and sends.
C1_BalanceNeverNegative == \A u \in DOMAIN users : users[u].email_credits >= 0

\* C2: of two sends that both read a balance of 1 on the same account (neither
\* saw the other's debit, and no top-up came between them: they overlapped),
\* at most one answers 200.
C2_OneOfTwoSendsSucceeds ==
  \A p, q \in Procs :
    (/\ p /= q
     /\ SendDone(p) /\ SendDone(q)
     /\ req[p].uid = req[q].uid
     /\ topups[req[p].uid] = 0
     /\ req[p].credits = 1 /\ req[q].credits = 1)
    => ~(req[p].status = 200 /\ req[q].status = 200)


\* what the ledger owes user u: the credits of account creation and of every
\* top-up, plus the grants of u's completed sessions, minus one per email record
Ledger(u) ==
  FREE_CREDITS * (1 + topups[u])
    + CompletedCredits(u, Len(payment_transactions)) - RecordsOf(u)

\* the part of Ledger(u) that the request in slot p has still to write: a record
\* inserted whose debit is due, a session marked completed whose grant is due
Due(p, u) ==
  IF Sending(p, u) THEN 1
  ELSE IF req[p].pc = "pay_grant" /\ payment_transactions[req[p].sid].user_id = u
       THEN 0 - payment_transactions[req[p].sid].credits_granted
  ELSE 0

\* session s is the completed subscription session of its owner that was
\* completed last
LastSubscription(s) ==
  /\ payment_transactions[s].package_kind = "subscription"
  /\ payment_transactions[s].payment_status = "completed"
  /\ \A t \in DOMAIN payment_transactions :
       (/\ payment_transactions[t].user_id = payment_transactions[s].user_id
        /\ payment_transactions[t].package_kind = "subscription"
        /\ payment_transactions[t].payment_status = "completed")
       => payment_transactions[t].completed_at <= payment_transactions[s].completed_at

\* C3: with one request at a time, however often a paid session is notified
\* (poll or webhook), the owner's balance holds the session's credits_granted
\* exactly once, and a subscription session leaves the owner on the purchased
\* tier with that tier's features.
C3_PaidSessionGrantsOnce ==
  /\ \A u \in DOMAIN users : users[u].email_credits = Ledger(u) + Due(1, u)
  /\ \A s \in DOMAIN payment_transactions :
       (LastSubscription(s) /\ ~Granting(s)) =>
         LET acct == users[payment_transactions[s].user_id]
             name == payment_transactions[s].package_name
         IN /\ acct.subscription_tier = name
            /\ acct.premium_features = SUBSCRIPTION_TIERS[name].features

\* C3, witness: a paid notification has just been answered for a subscription
\* session that an earlier notification had completed, and the owner, who
\* neither sent nor was topped up, holds the 10 free credits plus the grant
C3_Witness ==
  \E s \in DOMAIN payment_transactions :
    /\ req[1].pc = "done" /\ req[1].op = "webhook" /\ req[1].sid = s
    /\ req[1].paid /\ ~req[1].ran
    /\ payment_transactions[s].payment_status = "completed"
    /\ payment_transactions[s].package_kind = "subscription"
    /\ users[payment_transactions[s].user_id].email_credits =
         FREE_CREDITS + payment_transactions[s].credits_granted
    /\ users[payment_transactions[s].user_id].subscription_tier = "pro"

\* C4: whatever the interleaving of the reconciliations of a session, an
\* account that only logs in and pays never holds more than its free credits
\* plus one grant per completed session.
C4_GrantAppliedAtMostOnce ==
  \A u \in DOMAIN users :
    users[u].email_credits <= FREE_CREDITS + CompletedCredits(u, Len(payment_transactions))

\* C5: a session that is Completed, with no reconciliation of it in flight,
\* has its grant in the owner's balance (the account only logs in and pays),
\* also when a database write of the reconciliation raised.
C5_CompletedSessionIsGranted ==
  \A s \in DOMAIN payment_transactions :
    (payment_transactions[s].payment_status = "completed" /\ ~Granting(s)) =>
      users[payment_transactions[s].user_id].email_credits >=
        FREE_CREDITS + CompletedCredits(payment_transactions[s].user_id,
                                        Len(payment_transactions))

\* C6: once a session is Completed its record (status, completed_at, payment
\* intent id) is never written again.
C6_CompletedIsFinal ==
  [][\A s \in DOMAIN payment_transactions :
       payment_transactions[s].payment_status = "completed"
         => payment_transactions'[s] = payment_transactions[s]]_vars

\* C7: a send whose storage write did not reach the backend fails: it is not
\* answered 200 and no email record carries a handle the backend never issued.
C7_FailedStorageFailsSend ==
  /\ \A p \in Procs :
       (SendDone(p) /\ req[p].ipfs_hash = "simulated") => req[p].status /= 200
  /\ \A u \in DOMAIN users :
       CopiesIn([user_id |-> u, ipfs_hash |-> "simulated"], email_records) = 0

\* C10: with one request at a time, an account that was never topped up has
\* sent 10 - balance emails; a send that read a balance of at least 1 is
\* answered 200 and leaves that balance less one; a send that read 0 is
\* answered 402 and leaves 0.  So the 10 free credits pay for exactly 10 sends.
C10_TenSendsThenRefused ==
  /\ \A u \in DOMAIN users :
       topups[u] = 0 =>
         /\ users[u].email_credits >= 0
         /\ RecordsOf(u) = FREE_CREDITS - users[u].email_credits + Due(1, u)
  /\ SendDone(1) =>
       /\ req[1].credits >= 1 =>
            /\ req[1].status = 200
            /\ users[req[1].uid].email_credits = req[1].credits - 1
       /\ req[1].credits = 0 =>
            /\ req[1].status = 402
            /\ users[req[1].uid].email_credits = 0

\* C10, witness: the 11th send of an account that was never topped up has
\* just been answered 402, after 10 sends that left 10 records and balance 0
C10_Witness ==
  /\ SendDone(1) /\ req[1].status = 402
  /\ topups[req[1].uid] = 0
  /\ RecordsOf(req[1].uid) = FREE_CREDITS
  /\ users[req[1].uid].email_credits = 0
  /\ users[req[1].uid].subscription_tier = "basic"


\* C8: every hash store_encrypted_content returned names an object of the
\* node that holds the content it was given: no hash is made up.
C8_HandleMeansStored ==
  \A i \in issued :
    /\ i.hash.kind = "cid"
    /\ i.hash.n \in DOMAIN node
    /\ node[i.hash.n].plain = i.content

\* C9: a retrieval of a hash that a store call returned for content p, made
\* by the same process (same key) with the node answering, returns p.
C9_RoundTrip ==
  \A i \in issued :
    (/\ got.status /= 0
     /\ got.hash = i.hash
     /\ got.reachable
     /\ got.key = i.key)
    => (got.status = 200 /\ got.bytes = i.content)

(* ------------------- the send path with failing writes ------------------ *)
\* one request at a time on the send path, where a database write may raise
NextSendFault == Login({1}, {"0xA"}) \/ Send({1}, {<<>>}, {TRUE}, BOOLEAN, MaxMail)
SpecSendFault == Init /\ [][NextSendFault]_vars

\* C11: an email record exists only for a send whose debit was written too:
\* the records of an account that was never topped up and never paid number
\* at most the credits taken from its 10 free credits, the debit of a send in
\* flight counted as due.
C11_NoPartialCommit ==
  \A u \in DOMAIN users :
    RecordsOf(u) <= FREE_CREDITS - users[u].email_credits + Due(1, u)

(* --------------------------- the fingerprint ---------------------------- *)
Texts == SeqsUpTo({" ", "A", "a"}, MaxLen)
Addrs == {<<"a">>, <<"A">>, <<" ", "a">>, <<"b">>}
Recipients == SeqsUpTo(Addrs, MaxRecipients)
AttachmentLists == {None, StrList(<<>>), StrList(<<<<"a">>>>)}

\* the emails offered to the fingerprint: Mail0 with one field replaced
Emails ==
  {[Mail0 EXCEPT !.from_address = t] : t \in Texts}
    \cup {[Mail0 EXCEPT !.to_addresses = r] : r \in Recipients}
    \cup {[Mail0 EXCEPT !.subject = t] : t \in Texts}
    \cup {[Mail0 EXCEPT !.body = t] : t \in Texts}
    \cup {[Mail0 EXCEPT !.attachments = l] : l \in AttachmentLists}

\* two calls of _generate_email_hash, followed once
fingerprint ==
  /\ fp.kind = "none"
  /\ \E a \in Emails, b \in Emails :
       fp' = [kind |-> "pair", a |-> a, b |-> b,
              ha |-> generate_email_hash(a), hb |-> generate_email_hash(b)]
  /\ UNCHANGED <<client, fernet_key, node, issued, got, now>>
  /\ UNCHANGED dbvars

NextHash == fingerprint
SpecHash == Init /\ [][NextHash]_vars

\* t is s with whitespace added or removed at its two ends
SameButSpace(s, t) ==
  \E i \in 0..Len(s), j \in 0..Len(s), k \in 0..Len(t), l \in 0..Len(t) :
    /\ i + j <= Len(s) /\ k + l <= Len(t)
    /\ \A n \in 1..i : s[n] = " "
    /\ \A n \in (Len(s) - j + 1)..Len(s) : s[n] = " "
    /\ \A n \in 1..k : t[n] = " "
    /\ \A n \in (Len(t) - l + 1)..Len(t) : t[n] = " "
    /\ SubSeq(s, i + 1, Len(s) - j) = SubSeq(t, k + 1, Len(t) - l)

\* t is s with the case of letters changed
SameButCase(s, t) ==
  /\ Len(s) = Len(t)
  /\ \A n \in DOMAIN s : s[n] = t[n] \/ {s[n], t[n]} = {"a", "A"}

\* t is s with letter case and surrounding whitespace changed
SameAddress(s, t) ==
  \E i \in 0..Len(s), j \in 0..Len(s), k \in 0..Len(t), l \in 0..Len(t) :
    /\ i + j <= Len(s) /\ k + l <= Len(t)
    /\ \A n \in 1..i : s[n] = " "
    /\ \A n \in (Len(s) - j + 1)..Len(s) : s[n] = " "
    /\ \A n \in 1..k : t[n] = " "
    /\ \A n \in (Len(t) - l + 1)..Len(t) : t[n] = " "
    /\ SameButCase(SubSeq(s, i + 1, Len(s) - j), SubSeq(t, k + 1, Len(t) - l))

\* l is k permuted, each address up to letter case and surrounding whitespace
SameRecipients(k, l) ==
  /\ Len(k) = Len(l)
  /\ \E f \in [DOMAIN k -> DOMAIN l] :
       /\ \A i, j \in DOMAIN k : f[i] = f[j] => i = j
       /\ \A i \in DOMAIN k : SameAddress(k[i], l[f[i]])

\* C15: two emails that differ only by a permutation of the recipients, by
\* letter case or surrounding whitespace of sender and recipients, or by
\* leading or trailing whitespace of subject and body have the same fingerprint.
C15_FingerprintIgnoresNormalization ==
  (/\ fp.kind = "pair"
   /\ SameAddress(fp.a.from_address, fp.b.from_address)
   /\ SameRecipients(fp.a.to_addresses, fp.b.to_addresses)
   /\ SameButSpace(fp.a.subject, fp.b.subject)
   /\ SameButSpace(fp.a.body, fp.b.body)
   /\ fp.a.attachments = fp.b.attachments)
  => fp.ha = fp.hb

\* C15, witness: two recipient lists, one a permutation of the other with
\* letter case and whitespace changed, were fingerprinted to the same digest
C15_Witness ==
  /\ fp.kind = "pair"
  /\ fp.a.to_addresses = <<<<"b">>, <<"A">>>>
  /\ fp.b.to_addresses = <<<<" ", "a">>, <<"b">>>>
  /\ fp.ha.kind = "sha256"
  /\ fp.ha = fp.hb

\* C16 as stated: two emails of which a recipient, the subject or the body
\* differ have different fingerprints.
C16_AnyChangeChangesFingerprint ==
  (/\ fp.kind = "pair"
   /\ fp.ha.kind = "sha256" /\ fp.hb.kind = "sha256"
   /\ \/ fp.a.to_addresses /= fp.b.to_addresses
      \/ fp.a.subject /= fp.b.subject
      \/ fp.a.body /= fp.b.body)
  => fp.ha /= fp.hb

\* C16, amended: two emails have different fingerprints when their recipients
\* differ by more than order, letter case and surrounding whitespace, or
\* their subjects or bodies by more than leading and trailing whitespace.
C16_ChangeBeyondNormalizationChangesFingerprint ==
  (/\ fp.kind = "pair"
   /\ fp.ha.kind = "sha256" /\ fp.hb.kind = "sha256"
   /\ \/ ~SameRecipients(fp.a.to_addresses, fp.b.to_addresses)
      \/ ~SameButSpace(fp.a.subject, fp.b.subject)
      \/ ~SameButSpace(fp.a.body, fp.b.body))
  => fp.ha /= fp.hb

\* C16, witness: two emails whose bodies differ in the case of a letter were
\* fingerprinted to different digests
C16_Witness ==
  /\ fp.kind = "pair"
  /\ fp.a.body = <<"a">> /\ fp.b.body = <<"A">>
  /\ fp.ha.kind = "sha256" /\ fp.hb.kind = "sha256"
  /\ fp.ha /= fp.hb

(* --------------------- the send path with attachments ------------------- *)
\* POST /emails/verify by the client of a send that was answered 200, with
\* the content_hash of that answer and the fields of the email it sent
verify_email_timestamp_endpoint(p, attachments) ==
  /\ req[p].pc = "done" /\ req[p].op = "send" /\ req[p].status = 200
  /\ LET r == verify_email_timestamp([Mail0 EXCEPT !.attachments = attachments],
                                     req[p].content_hash)
     IN req' = [req EXCEPT ![p] =
          [@ EXCEPT !.op = "verify", !.status = r.status, !.valid = r.valid]]
  /\ UNCHANGED <<client, users, payment_transactions, email_records, now,
                 applied, topups>>
  /\ UNCHANGED storevars

\* the attachments field a client can put in the EmailData of an email it
\* sent with the uploads of slot p: the default empty list, or the file names
Verify(P) ==
  \E p \in P :
    \E attachments \in {StrList(<<>>), AttachmentNames(Len(req[p].atts))} :
      verify_email_timestamp_endpoint(p, attachments)

\* the uploads offered to a send: their sizes in MB
AttachmentInputs == SeqsUpTo(AttachmentSizes, MaxAttachments)

\* one request at a time: logins, sends with attachments down to the
\* account's last credit, and verifications
NextAttach ==
  \/ Login({1}, {"0xA"})
  \/ Topup({1})
  \/ Send({1}, AttachmentInputs, {TRUE}, {TRUE}, MaxRecords)
  \/ Attach({1}, {TRUE})
  \/ Verify({1})
SpecAttach == Init /\ [][NextAttach]_vars

\* an upload of the send in slot p is over the ceiling of the sender's tier
Oversized(p) ==
  \E i \in DOMAIN req[p].atts :
    req[p].atts[i] > SUBSCRIPTION_TIERS[req[p].tier].max_attachment_size

\* C12: a send that read a balance of 0 makes no call of
\* store_encrypted_content, for an attachment or for the body, at any step.
C12_NoStorageWriteWithoutCredit ==
  \A p \in Procs :
    (req[p].op = "send" /\ req[p].credits <= 0) =>
      (req[p].writes = 0 /\ req[p].ipfs_hash = "")

\* C12, witness: a send with attachments by an account at balance 0 has been
\* answered 402 without a storage write
C12_Witness ==
  /\ SendDone(1) /\ req[1].status = 402
  /\ req[1].atts /= <<>>
  /\ req[1].credits = 0
  /\ req[1].writes = 0

\* C13: a send with an attachment over the tier's ceiling by an account at
\* balance 0 is answered 413, not 402.
C13_SizeErrorBeforeCreditError ==
  \A p \in Procs :
    (SendDone(p) /\ Oversized(p) /\ req[p].credits = 0) => req[p].status = 413

\* C14: a send with an attachment over the tier's ceiling, at any position,
\* is answered 413, stores no body (so inserts no record) and leaves the
\* balance it read.
C14_OversizedAttachmentRejected ==
  \A p \in Procs :
    (SendDone(p) /\ Oversized(p)) =>
      /\ req[p].status = 413
      /\ req[p].ipfs_hash = ""
      /\ users[req[p].uid].email_credits = req[p].credits

\* C17: no send ends at the fingerprint step: _generate_email_hash returns a
\* digest for the email of every send, whatever its processed attachments.
C17_FingerprintNeverRaises ==
  \A p \in Procs : req[p].op = "send" => req[p].content_hash /= TypeError

\* C18: the verification of a successfully sent email, called with the
\* email's fields and the content_hash the send returned, answers valid.
C18_SentEmailVerifies ==
  \A p \in Procs :
    (req[p].op = "verify" /\ req[p].pc = "done") =>
      (req[p].status = 200 /\ req[p].valid)

(* ------------------------- tiers and features -------------------------- *)
\* C19: the premium_features of every account are the features of its
\* subscription tier in SUBSCRIPTION_TIERS, in every state.
C19_FeaturesMatchTier ==
  \A u \in DOMAIN users :
    users[u].premium_features = SUBSCRIPTION_TIERS[users[u].subscription_tier].features

\* C20: the step that applies the grant of a completed credit-package session
\* adds credits_granted to the owner's email_credits and changes nothing else
\* of any account.
C20_CreditPackageChangesOnlyBalance ==
  [][\A p \in Procs :
       (/\ req[p].pc = "pay_grant" /\ req'[p].pc = "done"
        /\ payment_transactions[req[p].sid].package_kind = "credits")
       => LET rec == payment_transactions[req[p].sid]
          IN \A u \in DOMAIN users :
               users'[u] = IF u = rec.user_id
                           THEN [users[u] EXCEPT !.email_credits = @ + rec.credits_granted]
                           ELSE users[u]]_vars

\* C20, witness: the grant of a credit-package session has just been applied
\* for one of two accounts: its owner holds the free credits plus the
\* package's credits on the tier it had, the other account its free credits
C20_Witness ==
  \E s \in DOMAIN payment_transactions :
    /\ req[1].pc = "done" /\ req[1].ran /\ req[1].sid = s
    /\ payment_transactions[s].package_kind = "credits"
    /\ payment_transactions[s].payment_status = "completed"
    /\ applied[s] = 1
    /\ Len(users) = 2
    /\ \A u \in DOMAIN users :
         /\ users[u].subscription_tier = "basic"
         /\ users[u].email_credits =
              IF u = payment_transactions[s].user_id
              THEN FREE_CREDITS + CREDIT_PACKAGES[payment_transactions[s].package_name].credits
              ELSE FREE_CREDITS

(* ------------------ payment notifications, one at a time ---------------- *)
\* one request at a time on the payment path, every database write succeeding
NextPaySeq == Login({1}, {"0xA"}) \/ Checkout \/ Reconcile({1}, {TRUE})
SpecPaySeq == Init /\ [][NextPaySeq]_vars

\* slot p takes, in this step, a paid notification for session s
Notified(p, s) ==
  /\ Free(p)
  /\ req'[p] /= req[p]
  /\ req'[p].op \in {"poll", "webhook"}
  /\ req'[p].paid
  /\ req'[p].sid = s

\* C21: a paid notification (poll or webhook) for a session that is already
\* completed is answered with success in the same step, without processing,
\* and leaves the session records and the accounts as they were.
C21_CompletedNotificationIsNoOp ==
  [][\A p \in Procs : \A s \in DOMAIN payment_transactions :
       (Notified(p, s) /\ payment_transactions[s].payment_status = "completed")
       => /\ req'[p].pc = "done"
          /\ req'[p].status = 200
          /\ ~req'[p].ran
          /\ payment_transactions' = payment_transactions
          /\ users' = users]_vars

\* C21, witness: a paid status poll of a subscription session that was
\* completed and granted before has been answered 200 without processing
C21_Witness ==
  \E s \in DOMAIN payment_transactions :
    /\ req[1].pc = "done" /\ req[1].op = "poll" /\ req[1].sid = s
    /\ req[1].paid /\ ~req[1].ran /\ req[1].status = 200
    /\ payment_transactions[s].payment_status = "completed"
    /\ applied[s] = 1
    /\ users[payment_transactions[s].user_id].email_credits =
         FREE_CREDITS + payment_transactions[s].credits_granted

\* C22: a status poll for a session id that has no payment record is
\* answered 404.
C22_UnknownSessionIsNotFound ==
  \A p \in Procs :
    (/\ req[p].pc = "done" /\ req[p].op = "poll"
     /\ req[p].sid \notin DOMAIN payment_transactions)
    => req[p].status = 404

(* ------------------------ retrieval outcomes --------------------------- *)
\* C23: retrieve_encrypted_content returns bytes only when they are stored
\* under the hash; it answers 404 when the node has no object for the hash,
\* and an outcome that is neither success nor 404 when the node cannot be
\* asked or the object does not decrypt.
C23_RetrieveOutcomesAreDistinct ==
  got.status /= 0 =>
    LET stored == got.hash.kind = "cid" /\ got.hash.n \in DOMAIN node
        available == got.client /\ got.reachable
    IN /\ got.status = 200 => (stored /\ got.bytes = node[got.hash.n].plain)
       /\ ~available => got.status \notin {200, 404}
       /\ (available /\ ~stored) => got.status = 404
       /\ (available /\ stored /\ ~can_decrypt(got.key, node[got.hash.n]))
            => got.status \notin {200, 404}

(* ---------------------------- the top-up -------------------------------- *)
\* one request at a time on the login and send path, far enough for an
\* account to spend its free credits twice
NextTopup ==
  \/ Login({1}, {"0xA"})
  \/ Topup({1})
  \/ Send({1}, {<<>>}, {TRUE}, {TRUE}, 2 * FREE_CREDITS)
SpecTopup == Init /\ [][NextTopup]_vars

\* C24: authenticate_wallet writes the top-up of an account at most once.
C24_TopupAtMostOnce == \A u \in DOMAIN users : topups[u] <= 1

(* ------------------------ the send's answer ---------------------------- *)
\* C25: the credits_remaining of a send answered 200 is the account's stored
\* balance right after that send's debit.
C25_CreditsRemainingIsBalance ==
  [][\A p \in Procs :
       (req[p].pc = "send_debit" /\ req'[p].pc = "done" /\ req'[p].status = 200)
       => req'[p].out = users'[req[p].uid].email_credits]_vars

(* ------------------------- the two triggers ---------------------------- *)
\* the payment records after session s was set completed at time t
Marked(pt, s, t) ==
  [pt EXCEPT ![s] = [@ EXCEPT !.payment_status = "completed",
                              !.completed_at = t,
                              !.stripe_payment_intent_id = s]]

\* C26: a paid notification of a pending session makes the same state
\* changes whether it came by the status poll or by the webhook: it starts
\* processing, sets the session completed, then applies the session's grant,
\* each step a function of the state and the session alone.
C26_TriggersApplySameChange ==
  [][\A p \in Procs :
       /\ \A s \in DOMAIN payment_transactions :
            (Notified(p, s) /\ payment_transactions[s].payment_status = "pending")
            => /\ req'[p].pc = "pay_mark"
               /\ payment_transactions' = payment_transactions
               /\ users' = users
       /\ (req[p].pc = "pay_mark" /\ req'[p].pc /= "pay_mark")
            => /\ req'[p].pc = "pay_grant"
               /\ payment_transactions' = Marked(payment_transactions, req[p].sid, now)
               /\ users' = users
       /\ (req[p].pc = "pay_grant" /\ req'[p].pc /= "pay_grant")
            => /\ req'[p].pc = "done" /\ req'[p].status = 200
               /\ payment_transactions' = payment_transactions
               /\ users' = grant(users, payment_transactions[req[p].sid])]_vars

\* C26, witness: a webhook has processed a paid pending subscription session
\* to the end: the session is completed and its owner is on the purchased
\* tier with the tier's features and the free credits plus the grant
C26_Witness ==
  \E s \in DOMAIN payment_transactions :
    /\ req[1].pc = "done" /\ req[1].op = "webhook" /\ req[1].sid = s /\ req[1].ran
    /\ payment_transactions[s].payment_status = "completed"
    /\ payment_transactions[s].package_kind = "subscription"
    /\ LET acct == users[payment_transactions[s].user_id]
           name == payment_transactions[s].package_name
       IN /\ acct.subscription_tier = name
          /\ acct.premium_features = SUBSCRIPTION_TIERS[name].features
          /\ acct.email_credits = FREE_CREDITS + SUBSCRIPTION_TIERS[name].credits_per_month

(* --------------------------- conservation ------------------------------ *)
\* C27: with no request in flight, the balance of every account is the 10
\* credits of its creation, plus the credits_granted of its completed
\* sessions, minus the number of its email records.
C27_CreditsConserved ==
  (\A p \in Procs : Free(p)) =>
    \A u \in DOMAIN users :
      users[u].email_credits =
        FREE_CREDITS + CompletedCredits(u, Len(payment_transactions)) - RecordsOf(u)

\* C29: the users collection holds at most one account per wallet address.
C29_OneAccountPerWallet ==
  \A i, j \in DOMAIN users :
    users[i].wallet_address = users[j].wallet_address => i = j

(* ------------------- login against reconciliation ---------------------- *)
\* the account's own requests, one at a time, in slot 1, while slot 2 carries
\* the notifications of its payment session
NextLoginPay ==
  \/ Login({1}, {"0xA"}) \/ Topup({1})
  \/ Send({1}, {<<>>}, {TRUE}, {TRUE}, MaxRecords)
  \/ Checkout \/ Reconcile({2}, {TRUE})
SpecLoginPay == Init /\ [][NextLoginPay]_vars

\* C28: once the login and the reconciliation have both finished, the balance
\* holds the full credits_granted of the completed session: it is the credits
\* of creation and of the top-ups, plus the grants, minus the emails sent.
C28_LoginKeepsPaymentCredits ==
  (\A p \in Procs : Free(p)) =>
    \A u \in DOMAIN users : users[u].email_credits >= Ledger(u)

(* ---------------------- retrieve_email_from_ipfs ----------------------- *)
\* what find_one returns when no document matches; an email_id that names no
\* record is offered as this value too
NoRecord == [user_id |-> 0, ipfs_hash |-> ""]

\* a lookup on the id alone
find_one_email_by_id(records, target, uid) ==
  IF BagIn(target, records) THEN target ELSE NoRecord

\* db.email_records.find_one({"id": email_id, "user_id": current_user["user_id"]})
\* where target is the record that email_id names
find_one_email(records, target, uid) ==
  IF BagIn(target, records) /\ target.user_id = uid THEN target ELSE NoRecord

\* the lookup and the two checks on its result; owner and ipfs_hash keep what
\* the requested id names, uid the account of the token
retrieve_email_from_ipfs_find(p, u, target) ==
  /\ Free(p)
  /\ u \in DOMAIN users
  /\ LET email_record == find_one_email(email_records, target, u)
         r == [Idle EXCEPT !.op = "retrieve", !.uid = u,
                           !.owner = target.user_id, !.ipfs_hash = target.ipfs_hash]
     IN req' = [req EXCEPT ![p] =
          IF email_record = NoRecord
          THEN [Done(r, 404, 0) EXCEPT !.detail = "Email not found"]
          ELSE IF email_record.ipfs_hash = ""
          THEN [Done(r, 400, 0) EXCEPT !.detail = "Email not stored in IPFS"]
          ELSE [r EXCEPT !.pc = "retrieve_cat"]]
  /\ UNCHANGED <<client, users, payment_transactions, email_records, now,
                 applied, topups>>
  /\ UNCHANGED storevars

\* retrieve_encrypted_content of the record's hash, then json.loads of the
\* bytes: the placeholder is not JSON and leaves as a 500; the content of a
\* response is kept as the owner of the record it was stored for
retrieve_email_from_ipfs_cat(p, reachable) ==
  /\ req[p].pc = "retrieve_cat"
  /\ LET decrypted_content ==
           retrieve_encrypted_content(client, reachable,
             <<encrypt(fernet_key, "email")>>, fernet_key,
             [kind |-> req[p].ipfs_hash, n |-> 1])
     IN req' = [req EXCEPT ![p] =
          IF decrypted_content.status = 404
          THEN [Done(@, 404, 0) EXCEPT !.detail = "Content not found in IPFS"]
          ELSE IF decrypted_content.bytes = Placeholder
          THEN [Done(@, 500, 0) EXCEPT !.detail = "Failed to retrieve email"]
          ELSE Done(@, 200, @.owner)]
  /\ UNCHANGED <<client, users, payment_transactions, email_records, now,
                 applied, topups>>
  /\ UNCHANGED storevars

Retrieve(P, R) ==
  \/ \E p \in P, u \in 1..MaxUsers :
       \E target \in BagToSet(email_records) \cup {NoRecord} :
          retrieve_email_from_ipfs_find(p, u, target)
  \/ \E p \in P, reachable \in R : retrieve_email_from_ipfs_cat(p, reachable)

\* two accounts that log in and send in slot 1 and retrieve in slot 2, a
\* retrieval possibly during a send
NextRetrieve ==
  \/ Login({1}, Wallets)
  \/ Send({1}, {<<>>}, BOOLEAN, {TRUE}, MaxMail)
  \/ Retrieve({2}, BOOLEAN)
SpecRetrieve == Init /\ [][NextRetrieve]_vars

\* C30: a retrieval whose id names a record of another account, or no record,
\* is answered 404 "Email not found" with no content and reads nothing from
\* storage; content is returned only for a record of the requesting account.
C30_RetrieveOnlyOwnEmails ==
  \A p \in Procs :
    req[p].op = "retrieve" =>
      /\ req[p].owner /= req[p].uid =>
           /\ req[p].pc = "done"
           /\ req[p].status = 404
           /\ req[p].out = 0
           /\ req[p].detail = "Email not found"
      /\ req[p].out /= 0 => req[p].owner = req[p].uid /\ req[p].out = req[p].uid

\* a retrieval of an existing, stored and readable record of another account
\* was answered as not found
C30_Witness ==
  \E p \in Procs :
    /\ req[p].op = "retrieve" /\ req[p].pc = "done"
    /\ req[p].owner \in DOMAIN users /\ req[p].owner /= req[p].uid
    /\ req[p].ipfs_hash = "cid" /\ client
    /\ req[p].status = 404


=============================================================================
